---- MODULE Spec2Model ----
(***************************************************************************)
(* Streaming chat delivery with mid-flight cancellation                    *)
(* (backend/routers/chat.py: send_message_stream, generate, cancel_stream) *)
(* fed by the upstream fragment producer                                   *)
(* (backend/services/agent_service.py: AgentService.chat_stream).          *)
(*                                                                         *)
(* One asyncio event loop runs everything, so code between two suspension  *)
(* points is atomic.  The response generator suspends at every event it    *)
(* yields, while it awaits the next fragment of chat_stream, and while it  *)
(* awaits request.is_disconnected().  Each action below is the code run    *)
(* from one suspension point to the next.                                  *)
(***************************************************************************)
EXTENDS Integers, Sequences, FiniteSets, TLC

\* ------------------------------------------------------------------ bounds
\* Fragments the upstream producer delivers to one stream at most.
MaxFragments == 2

\* Stream ids minted by uuid4 (chat.py:132); UnknownId is never minted.
StreamIds == {"s1", "s2"}
UnknownId == "s0"
CancelIds == StreamIds \cup {UnknownId}
\* The text the model streams, one non-empty fragment per character
\* (chat_stream yields only truthy chunk.content, agent_service.py:477-483).
ModelResponse == "abcdefgh"
\* The user's prompt (message.content).
Prompts == {"q"}
\* str(e) of the exception raised while pulling from the upstream producer.
ErrorMsgs == {"timeout", "content must be a string"}
\* message.session_id absent (chat.py:136).
NoSession == 0
\* No cancel request served yet.
NoResponse == [message |-> "", stream_id |-> ""]
\* cancel has not succeeded for the stream yet.
NoSnapshot == [events |-> << >>, buffer |-> "", pulled |-> -1, inhand |-> ""]

VARIABLES
    active_streams,   \* chat.py:21   stream_id -> bool, the active-stream table
    pc,               \* where each stream's request / generator stands
    session_id,       \* chat.py:135  the chat session of each stream
    full_content,     \* chat.py:160  accumulated buffer of each generator
    cancelled,        \* chat.py:161  local flag of each generator
    chunk,            \* chat.py:170  the fragment in hand of each generator ("" when
                      \*              the loop variable is dead: outside the loop body)
    events,           \* the events each generator has yielded so far
    sessions,         \* rows of chat_sessions (their ids)
    messages,         \* rows of chat_messages
    pulled,           \* fragments the upstream producer delivered to each stream
    cancel_response,  \* the body cancel_stream returned last
    cancel_snapshot   \* per stream: what stood when cancel first succeeded for it

\* Document ingestion (backend/services/document_service.py): one call of
\* process_document, its chunk_text walk taken one window at a time.
VARIABLES
    ct_pc,            \* where process_document stands
    ct_text,          \* document_service.py:67  the extracted text
    chunk_size,       \* document_service.py:10  self.chunk_size
    chunk_overlap,    \* document_service.py:11  self.chunk_overlap
    ct_start,         \* document_service.py:46  start
    ct_chunks,        \* document_service.py:45  chunks
    ct_windows,       \* the windows the walk has visited so far
    ct_result,        \* document_service.py:61  what chunk_text returned
    documents,        \* rows of documents
    document_chunks   \* rows of document_chunks, in the order a select reads them

\* Retrieval (backend/services/rag_service.py): the last call served.
VARIABLES
    sr_call,          \* the call: operation, query, top_k
    sr_results,       \* rag_service.py:40  what search_documents returned
    sr_contexts,      \* rag_service.py:49  contexts
    sr_sources        \* rag_service.py:50  sources

\* Chat agent: AgentService.chat, chat_stream and _track_metrics
\* (backend/services/agent_service.py).
VARIABLES
    ag_pc,            \* where the call of chat / chat_stream stands
    ag_call,          \* the call: operation and message
    ag_response,      \* agent_service.py:319, 474  what agent.arun answers with
    ag_yielded,       \* agent_service.py:483  the fragments chat_stream has yielded
    ag_result,        \* agent_service.py:361  what chat returned
    ag_failure,       \* what went wrong inside the last _track_metrics
    ag_warnings,      \* agent_service.py:213  warnings printed by _track_metrics
    eval_results,     \* agent_service.py:188-210  committed EvalResult rows
    ag_calls          \* calls served so far

\* MCP connections: MCPService (backend/services/mcp_service.py).
VARIABLES
    active_connections, \* mcp_service.py:38   self._active_connections
    mcp_pc,             \* where each caller's connect_server / disconnect_server stands
    mcp_server_id,      \* the server_id argument of each caller's call
    mcp_tools,          \* mcp_service.py:198, 248  the MCPTools instance in hand
    mcp_result,         \* what each caller's last call returned
    connections,        \* every MCPTools instance created: server, state, flags
    mcp_calls,          \* calls started by each caller
    agent_tools         \* mcp_service.py:281  what get_mcp_tools_for_agent returned

genVars == <<full_content, cancelled, chunk, events, pulled>>
dbVars == <<sessions, messages>>
cancelVars == <<cancel_response, cancel_snapshot>>
streamVars == <<active_streams, pc, session_id, genVars, dbVars, cancelVars>>
chunkerVars == <<ct_pc, ct_text, chunk_size, chunk_overlap, ct_start, ct_chunks,
                 ct_windows, ct_result, documents>>
searchVars == <<sr_call, sr_results, sr_contexts, sr_sources>>
\* What the streaming routes leave alone.
agentVars == <<ag_pc, ag_call, ag_response, ag_yielded, ag_result, ag_failure,
               ag_warnings, eval_results, ag_calls>>
mcpVars == <<active_connections, mcp_pc, mcp_server_id, mcp_tools, mcp_result,
             connections, mcp_calls, agent_tools>>
svcVars == <<agentVars, mcpVars>>
docVars == <<chunkerVars, searchVars, document_chunks, svcVars>>
vars == <<streamVars, docVars>>

\* ------------------------------------------------------- strings and events
CancelMarker == " [cancelled]"
\* chat.py:198, without its leading warning sign.
FriendlyError ==
    "Model Error: Model yang dipilih tidak mendukung gambar (Multimodal). Silakan ganti ke model Vision (contoh: Llama-3.2 Vision, GPT-4o, Qwen-VL) di Settings."

Contains(str, sub) ==
    \E i \in 1..(Len(str) - Len(sub) + 1) : SubSeq(str, i, i + Len(sub) - 1) = sub

EndsWith(str, suffix) ==
    /\ Len(str) >= Len(suffix)
    /\ SubSeq(str, Len(str) - Len(suffix) + 1, Len(str)) = suffix

\* The i-th fragment the upstream producer yields (agent_service.py:476-483).
FragmentAt(i) == SubSeq(ModelResponse, i, i)

\* chat.py:193-197
IsMultimodalError(error_msg) ==
    \/ Contains(error_msg, "content must be a string")
    \/ (Contains(error_msg, "content") /\ Contains(error_msg, "string"))

StartEvent(s, sess) == [type |-> "start", stream_id |-> s, session_id |-> sess]
ChunkEvent(c) == [type |-> "chunk", content |-> c]
ErrorEvent(error_msg) ==
    [type |-> "error",
     error |-> IF IsMultimodalError(error_msg) THEN FriendlyError ELSE error_msg]
DoneEventWithId(mid, canc) == [type |-> "done", message_id |-> mid, cancelled |-> canc]
DoneEvent(canc) == [type |-> "done", cancelled |-> canc]

\* ------------------------------------------------- the active-stream table
\* Mutant of Register: the registration is forgotten.
RegisterNothing(tbl, s) == tbl

\* active_streams[stream_id] = True   (chat.py:164)
Register(tbl, s) == [k \in DOMAIN tbl \cup {s} |-> IF k = s THEN TRUE ELSE tbl[k]]

\* Mutant of IsActive: tests the presence of the key instead of its flag.
IsActivePresence(tbl, s) == s \in DOMAIN tbl

\* active_streams.get(stream_id, False)   (chat.py:178)
IsActive(tbl, s) == IF s \in DOMAIN tbl THEN tbl[s] ELSE FALSE

\* Mutant of Cleanup: the whole table is cleared.
CleanupAll(tbl, s) == << >>

\* active_streams.pop(stream_id, None)   (chat.py:205)
Cleanup(tbl, s) == [k \in DOMAIN tbl \ {s} |-> tbl[k]]

\* Mutant of CancelTable: the flag is written without the membership test.
CancelTableUnconditional(tbl, id) ==
    [k \in DOMAIN tbl \cup {id} |-> IF k = id THEN FALSE ELSE tbl[k]]

\* Mutant of CancelTable: the flag is flipped instead of cleared.
CancelTableToggle(tbl, id) ==
    IF id \in DOMAIN tbl THEN [tbl EXCEPT ![id] = ~@] ELSE tbl

\* cancel_stream's effect on the table   (chat.py:239-240)
CancelTable(tbl, id) ==
    IF id \in DOMAIN tbl THEN [tbl EXCEPT ![id] = FALSE] ELSE tbl

\* cancel_stream's returned body   (chat.py:239-242)
CancelResponse(tbl, id) ==
    IF id \in DOMAIN tbl
    THEN [message |-> "Stream cancelled", stream_id |-> id]
    ELSE [message |-> "Stream not found or already completed", stream_id |-> id]

\* ------------------------------------------------------ chat_messages rows
\* The uuid4 primary key of the row a stream's request inserts (models/chat.py:22).
MessageId(s, role) == <<s, role>>

\* chat.py:148-150
UserMessage(s, sess, content) ==
    [id |-> MessageId(s, "user"), session_id |-> sess, role |-> "user",
     content |-> content]

\* Mutant of AssistantContent: the cancellation marker is left out.
AssistantContentNoMarker(buffer, canc) == buffer

\* content of the persisted assistant message   (chat.py:212)
AssistantContent(buffer, canc) == buffer \o (IF canc THEN CancelMarker ELSE "")

\* chat.py:209-216
AssistantMessage(s, sess, buffer, canc) ==
    [id |-> MessageId(s, "assistant"), session_id |-> sess, role |-> "assistant",
     content |-> AssistantContent(buffer, canc)]

\* ------------------------------------------------------------------- Init
\* The streaming routes before any request.
StreamInit ==
    /\ active_streams = << >>
    /\ pc = [s \in StreamIds |-> "idle"]
    /\ session_id = [s \in StreamIds |-> NoSession]
    /\ full_content = [s \in StreamIds |-> ""]
    /\ cancelled = [s \in StreamIds |-> FALSE]
    /\ chunk = [s \in StreamIds |-> ""]
    /\ events = [s \in StreamIds |-> << >>]
    /\ sessions = {}
    /\ messages = {}
    /\ pulled = [s \in StreamIds |-> 0]
    /\ cancel_response = NoResponse
    /\ cancel_snapshot = [s \in StreamIds |-> NoSnapshot]

\* No document is being ingested, none is stored.
ChunkerIdle ==
    /\ ct_pc = "idle"
    /\ ct_text = ""
    /\ chunk_size = 0
    /\ chunk_overlap = 0
    /\ ct_start = 0
    /\ ct_chunks = << >>
    /\ ct_windows = << >>
    /\ ct_result = << >>
    /\ documents = {}

\* No retrieval call served yet.
SearchIdle ==
    /\ sr_call = [op |-> "none", query |-> "", top_k |-> 0]
    /\ sr_results = << >>
    /\ sr_contexts = << >>
    /\ sr_sources = << >>

\* The callers of the MCP service.
Callers == {"c1", "c2"}
NoTools == "none"
NoResult == "pending"

\* No chat call made, no metrics recorded.
AgentIdle ==
    /\ ag_pc = "idle"
    /\ ag_call = [op |-> "none", message |-> ""]
    /\ ag_response = ""
    /\ ag_yielded = << >>
    /\ ag_result = NoResult
    /\ ag_failure = "none"
    /\ ag_warnings = 0
    /\ eval_results = << >>
    /\ ag_calls = 0

\* MCPService() constructed (mcp_service.py:37-38), no call made.
McpIdle ==
    /\ active_connections = << >>
    /\ mcp_pc = [c \in Callers |-> "idle"]
    /\ mcp_server_id = [c \in Callers |-> 0]
    /\ mcp_tools = [c \in Callers |-> NoTools]
    /\ mcp_result = [c \in Callers |-> NoResult]
    /\ connections = << >>
    /\ mcp_calls = [c \in Callers |-> 0]
    /\ agent_tools = {}

SvcIdle == AgentIdle /\ McpIdle

Init ==
    /\ StreamInit
    /\ ChunkerIdle
    /\ SearchIdle
    /\ SvcIdle
    /\ document_chunks = << >>

\* ---------------------------------------------------------------- actions
\* Mutant of SendMessageStream: the user message is not persisted up front.
SendMessageStreamNoPersist(s, sess, content) ==
    /\ pc[s] = "idle"
    /\ sess = NoSession \/ sess \in sessions
    /\ LET sid == IF sess = NoSession THEN Cardinality(sessions) + 1 ELSE sess IN
        /\ sessions' = sessions \cup {sid}
        /\ session_id' = [session_id EXCEPT ![s] = sid]
    /\ pc' = [pc EXCEPT ![s] = "created"]
    /\ UNCHANGED <<active_streams, genVars, cancelVars, messages>>
    /\ UNCHANGED docVars

\* send_message_stream up to the return of the StreamingResponse (chat.py:122-233):
\* mint the stream id, create or look up the session (an unknown session id is
\* answered 404 and changes nothing), persist the user message.
SendMessageStream(s, sess, content) ==
    /\ pc[s] = "idle"
    /\ sess = NoSession \/ sess \in sessions
    /\ LET sid == IF sess = NoSession THEN Cardinality(sessions) + 1 ELSE sess IN
        /\ sessions' = sessions \cup {sid}
        /\ session_id' = [session_id EXCEPT ![s] = sid]
        /\ messages' = messages \cup {UserMessage(s, sid, content)}
    /\ pc' = [pc EXCEPT ![s] = "created"]
    /\ UNCHANGED <<active_streams, genVars, cancelVars>>
    /\ UNCHANGED docVars

\* generate() from its first line to the yield of the start event (chat.py:160-167).
GenerateStart(s) ==
    /\ pc[s] = "created"
    /\ full_content' = [full_content EXCEPT ![s] = ""]
    /\ cancelled' = [cancelled EXCEPT ![s] = FALSE]
    /\ active_streams' = Register(active_streams, s)
    /\ events' = [events EXCEPT ![s] = Append(@, StartEvent(s, session_id[s]))]
    /\ pc' = [pc EXCEPT ![s] = "y_start"]
    /\ UNCHANGED <<session_id, chunk, pulled, dbVars, cancelVars>>
    /\ UNCHANGED docVars

\* Resumed after the start event: enter the try, call chat_stream and await its
\* first fragment (chat.py:169-176).
ResumeStart(s) ==
    /\ pc[s] = "y_start"
    /\ pc' = [pc EXCEPT ![s] = "await_frag"]
    /\ UNCHANGED <<active_streams, session_id, genVars, dbVars, cancelVars>>
    /\ UNCHANGED docVars

\* Mutant of Finalize: the finally clause does not pop the entry.
FinalizeKeepsEntry(s, canc) ==
    /\ cancelled' = [cancelled EXCEPT ![s] = canc]
    /\ chunk' = [chunk EXCEPT ![s] = ""]
    /\ active_streams' = active_streams
    /\ IF full_content[s] # ""
       THEN /\ messages' = messages \cup
                   {AssistantMessage(s, session_id[s], full_content[s], canc)}
            /\ events' = [events EXCEPT
                  ![s] = Append(@, DoneEventWithId(MessageId(s, "assistant"), canc))]
       ELSE /\ messages' = messages
            /\ events' = [events EXCEPT ![s] = Append(@, DoneEvent(canc))]
    /\ pc' = [pc EXCEPT ![s] = "y_done"]
    /\ UNCHANGED <<session_id, full_content, sessions>>

\* The loop was left by break or by exhaustion: the finally clause, then the
\* persistence of the buffer and the done event (chat.py:203-223).
Finalize(s, canc) ==
    /\ cancelled' = [cancelled EXCEPT ![s] = canc]
    /\ chunk' = [chunk EXCEPT ![s] = ""]
    /\ active_streams' = Cleanup(active_streams, s)
    /\ IF full_content[s] # ""
       THEN /\ messages' = messages \cup
                   {AssistantMessage(s, session_id[s], full_content[s], canc)}
            /\ events' = [events EXCEPT
                  ![s] = Append(@, DoneEventWithId(MessageId(s, "assistant"), canc))]
       ELSE /\ messages' = messages
            /\ events' = [events EXCEPT ![s] = Append(@, DoneEvent(canc))]
    /\ pc' = [pc EXCEPT ![s] = "y_done"]
    /\ UNCHANGED <<session_id, full_content, sessions>>

\* Mutant of Fragment: the loop body without the flag check.
FragmentNoFlagCheck(s) ==
    /\ pc[s] = "await_frag"
    /\ pulled[s] < MaxFragments
    /\ pulled' = [pulled EXCEPT ![s] = @ + 1]
    /\ chunk' = [chunk EXCEPT ![s] = FragmentAt(pulled[s] + 1)]
    /\ pc' = [pc EXCEPT ![s] = "await_disc"]
    /\ UNCHANGED <<active_streams, session_id, full_content, cancelled, events,
                   dbVars, cancelVars>>
    /\ UNCHANGED docVars

\* chat_stream yields a fragment (agent_service.py:476-483); the loop body runs the
\* flag check and, when the flag is active, goes on to await the disconnect check
\* (chat.py:177-183).
Fragment(s) ==
    /\ pc[s] = "await_frag"
    /\ pulled[s] < MaxFragments
    /\ pulled' = [pulled EXCEPT ![s] = @ + 1]
    /\ IF ~IsActive(active_streams, s)
       THEN Finalize(s, TRUE)
       ELSE /\ chunk' = [chunk EXCEPT ![s] = FragmentAt(pulled[s] + 1)]
            /\ pc' = [pc EXCEPT ![s] = "await_disc"]
            /\ UNCHANGED <<active_streams, session_id, full_content, cancelled, events,
                           dbVars>>
    /\ UNCHANGED cancelVars
    /\ UNCHANGED docVars

\* Mutant of DisconnectCheck: the fragment is appended to the buffer before the
\* disconnect check instead of after it.
DisconnectCheckAppendsFirst(s, is_disconnected) ==
    /\ pc[s] = "await_disc"
    /\ IF is_disconnected
       THEN /\ cancelled' = [cancelled EXCEPT ![s] = TRUE]
            /\ full_content' = [full_content EXCEPT ![s] = @ \o chunk[s]]
            /\ chunk' = [chunk EXCEPT ![s] = ""]
            /\ active_streams' = Cleanup(active_streams, s)
            /\ messages' = messages \cup
                  {AssistantMessage(s, session_id[s], full_content[s] \o chunk[s], TRUE)}
            /\ events' = [events EXCEPT
                  ![s] = Append(@, DoneEventWithId(MessageId(s, "assistant"), TRUE))]
            /\ pc' = [pc EXCEPT ![s] = "y_done"]
            /\ UNCHANGED <<session_id, sessions>>
       ELSE /\ full_content' = [full_content EXCEPT ![s] = @ \o chunk[s]]
            /\ events' = [events EXCEPT ![s] = Append(@, ChunkEvent(chunk[s]))]
            /\ pc' = [pc EXCEPT ![s] = "y_chunk"]
            /\ UNCHANGED <<active_streams, session_id, cancelled, chunk, dbVars>>
    /\ UNCHANGED <<pulled, cancelVars>>
    /\ UNCHANGED docVars

\* request.is_disconnected() answers is_disconnected (chat.py:183-188).
DisconnectCheck(s, is_disconnected) ==
    /\ pc[s] = "await_disc"
    /\ IF is_disconnected
       THEN Finalize(s, TRUE)
       ELSE /\ full_content' = [full_content EXCEPT ![s] = @ \o chunk[s]]
            /\ events' = [events EXCEPT ![s] = Append(@, ChunkEvent(chunk[s]))]
            /\ pc' = [pc EXCEPT ![s] = "y_chunk"]
            /\ UNCHANGED <<active_streams, session_id, cancelled, chunk, dbVars>>
    /\ UNCHANGED <<pulled, cancelVars>>
    /\ UNCHANGED docVars

\* Resumed after a chunk event: back to awaiting the next fragment (chat.py:170;
\* chat_stream runs on to its next yield, agent_service.py:485-499).
ResumeChunk(s) ==
    /\ pc[s] = "y_chunk"
    /\ chunk' = [chunk EXCEPT ![s] = ""]
    /\ pc' = [pc EXCEPT ![s] = "await_frag"]
    /\ UNCHANGED <<active_streams, session_id, full_content, cancelled, events, pulled,
                   dbVars, cancelVars>>
    /\ UNCHANGED docVars

\* chat_stream is exhausted: the loop ends normally (chat.py:170, 203-223).
UpstreamEnd(s) ==
    /\ pc[s] = "await_frag"
    /\ Finalize(s, cancelled[s])
    /\ UNCHANGED <<pulled, cancelVars>>
    /\ UNCHANGED docVars

\* Mutant of UpstreamError: the partial buffer is persisted on the error path too.
UpstreamErrorPersists(s, error_msg) ==
    /\ pc[s] = "await_frag"
    /\ events' = [events EXCEPT ![s] = Append(@, ErrorEvent(error_msg))]
    /\ messages' = IF full_content[s] # ""
                   THEN messages \cup
                          {AssistantMessage(s, session_id[s], full_content[s], FALSE)}
                   ELSE messages
    /\ pc' = [pc EXCEPT ![s] = "y_error"]
    /\ UNCHANGED <<active_streams, session_id, full_content, cancelled, chunk, pulled,
                   sessions, cancelVars>>
    /\ UNCHANGED docVars

\* Pulling from chat_stream raises: the except clause yields the error event
\* (chat.py:190-201).  The generator is suspended inside the except clause, the
\* finally clause has not run yet.
UpstreamError(s, error_msg) ==
    /\ pc[s] = "await_frag"
    /\ events' = [events EXCEPT ![s] = Append(@, ErrorEvent(error_msg))]
    /\ pc' = [pc EXCEPT ![s] = "y_error"]
    /\ UNCHANGED <<active_streams, session_id, full_content, cancelled, chunk, pulled,
                   dbVars, cancelVars>>
    /\ UNCHANGED docVars

\* Mutant of ResumeError: the return after the error event is missing, the
\* generator runs on to the done event.
ResumeErrorFallsThrough(s) ==
    /\ pc[s] = "y_error"
    /\ Finalize(s, cancelled[s])
    /\ UNCHANGED <<pulled, cancelVars>>
    /\ UNCHANGED docVars

\* Resumed after the error event: return, through the finally clause (chat.py:202-205).
ResumeError(s) ==
    /\ pc[s] = "y_error"
    /\ active_streams' = Cleanup(active_streams, s)
    /\ pc' = [pc EXCEPT ![s] = "finished"]
    /\ UNCHANGED <<session_id, genVars, dbVars, cancelVars>>
    /\ UNCHANGED docVars

\* Resumed after the done event: the generator body ends (chat.py:221-223).
ResumeDone(s) ==
    /\ pc[s] = "y_done"
    /\ pc' = [pc EXCEPT ![s] = "finished"]
    /\ UNCHANGED <<active_streams, session_id, genVars, dbVars, cancelVars>>
    /\ UNCHANGED docVars

\* The table after the transport closed the generator suspended at `at`:
\* GeneratorExit is raised at the yield.  The start event's yield (chat.py:167) is
\* outside the try, the chunk and error yields (chat.py:188, 199-201) are inside
\* it, so its finally clause runs, the done yields (chat.py:221-223) are after it.
CloseTable(tbl, s, at) ==
    IF at \in {"y_chunk", "y_error"} THEN Cleanup(tbl, s) ELSE tbl

\* The transport closes (abandons) the generator while it is suspended at an event.
Close(s) ==
    /\ pc[s] \in {"y_start", "y_chunk", "y_error", "y_done"}
    /\ active_streams' = CloseTable(active_streams, s, pc[s])
    /\ chunk' = [chunk EXCEPT ![s] = ""]
    /\ pc' = [pc EXCEPT ![s] = "closed"]
    /\ UNCHANGED <<session_id, full_content, cancelled, events, pulled, dbVars,
                   cancelVars>>
    /\ UNCHANGED docVars

\* What stands for stream s when a cancel request is served.
Snapshot(s) ==
    [events |-> events[s], buffer |-> full_content[s], pulled |-> pulled[s],
     inhand |-> chunk[s]]

\* cancel_stream (chat.py:236-242).
CancelStream(id) ==
    /\ active_streams' = CancelTable(active_streams, id)
    /\ cancel_response' = CancelResponse(active_streams, id)
    /\ cancel_snapshot' =
          IF id \in DOMAIN active_streams /\ cancel_snapshot[id] = NoSnapshot
          THEN [cancel_snapshot EXCEPT ![id] = Snapshot(id)]
          ELSE cancel_snapshot
    /\ UNCHANGED <<pc, session_id, genVars, dbVars>>
    /\ UNCHANGED docVars

Next ==
    \/ \E s \in StreamIds, sess \in {NoSession} \cup (1..Cardinality(StreamIds)),
          content \in Prompts : SendMessageStream(s, sess, content)
    \/ \E s \in StreamIds : GenerateStart(s)
    \/ \E s \in StreamIds : ResumeStart(s)
    \/ \E s \in StreamIds : Fragment(s)
    \/ \E s \in StreamIds, d \in BOOLEAN : DisconnectCheck(s, d)
    \/ \E s \in StreamIds : ResumeChunk(s)
    \/ \E s \in StreamIds : UpstreamEnd(s)
    \/ \E s \in StreamIds, e \in ErrorMsgs : UpstreamError(s, e)
    \/ \E s \in StreamIds : ResumeError(s)
    \/ \E s \in StreamIds : ResumeDone(s)
    \/ \E s \in StreamIds : Close(s)
    \/ \E id \in CancelIds : CancelStream(id)

Spec == Init /\ [][Next]_vars

\* ------------------------------------------------- observing a stream
HasEvent(s, type) == \E i \in DOMAIN events[s] : events[s][i].type = type

LastEvent(s) == events[s][Len(events[s])]

NumChunks(evs) == Cardinality({i \in DOMAIN evs : evs[i].type = "chunk"})

\* The assistant rows persisted by stream s (chat.py:209-219).
AssistantRows(s) == {m \in messages : m.id = MessageId(s, "assistant")}

\* The state of a stream in the state machine CREATED -> STREAMING ->
\* {COMPLETED | CANCELLED | FAILED}, read off what generate() has done
\* (chat.py:159-223): a terminal state is reached with the terminal event.
StreamState(s) ==
    IF events[s] = << >> THEN "NONE"
    ELSE IF LastEvent(s).type = "error" THEN "FAILED"
    ELSE IF LastEvent(s).type = "done"
         THEN (IF LastEvent(s).cancelled THEN "CANCELLED" ELSE "COMPLETED")
    ELSE IF pc[s] = "closed" THEN "ABANDONED"
    ELSE IF pc[s] = "y_start" THEN "CREATED"
    ELSE "STREAMING"

TerminalStates == {"COMPLETED", "CANCELLED", "FAILED"}

\* cancel(s) has reported success at least once.
CancelSucceeded(s) == cancel_snapshot[s] # NoSnapshot

\* ------------------------------------------------------------------ claims
\* C1: cancel_stream(stream_id) on a key of the active-stream table sets its flag
\* to False, keeps the keys and answers "Stream cancelled"; on anything else it
\* answers "Stream not found or already completed" and leaves the table as it is
\* (it inserts nothing).
C1_CancelContract ==
    [][\A id \in CancelIds :
         CancelStream(id) =>
            IF id \in DOMAIN active_streams
            THEN /\ active_streams'[id] = FALSE
                 /\ DOMAIN active_streams' = DOMAIN active_streams
                 /\ cancel_response' = [message |-> "Stream cancelled", stream_id |-> id]
            ELSE /\ active_streams' = active_streams
                 /\ cancel_response' =
                       [message |-> "Stream not found or already completed",
                        stream_id |-> id]]_vars

\* C1 witness: cancel succeeded for a stream while it was live, and a later cancel
\* of the same stream, by then terminated, was answered "not found".
C1_Witness ==
    \E s \in StreamIds :
        /\ CancelSucceeded(s)
        /\ StreamState(s) \in TerminalStates
        /\ s \notin DOMAIN active_streams
        /\ cancel_response =
              [message |-> "Stream not found or already completed", stream_id |-> s]

\* cancel(s) first succeeded after the start event and before any chunk event.
CancelledBeforeFirstChunk(s) ==
    /\ CancelSucceeded(s)
    /\ Len(cancel_snapshot[s].events) = 1
    /\ cancel_snapshot[s].events[1].type = "start"

\* The upstream producer delivered a fragment after cancel(s) succeeded.
FragmentAfterCancel(s) ==
    /\ CancelSucceeded(s)
    /\ pulled[s] > cancel_snapshot[s].pulled

\* C2 as claimed: once cancel was served between the start event and the first
\* chunk event, a stream that ends with a done event ends CANCELLED (done carries
\* cancelled = true, a persisted message ends with the marker), whether or not the
\* producer delivers another fragment.
C2_CancelBeforeChunkAlwaysCancelled ==
    \A s \in StreamIds :
        (CancelledBeforeFirstChunk(s) /\ HasEvent(s, "done")) =>
            /\ LastEvent(s).cancelled = TRUE
            /\ \A m \in AssistantRows(s) : EndsWith(m.content, CancelMarker)

\* C2 amended: once cancel was served between the start event and the first chunk
\* event and the producer has delivered a fragment after it, the stream is
\* CANCELLED: its last event is done with cancelled = true, and a persisted
\* message ends with the marker.
C2_CancelBeforeChunkThenFragment ==
    \A s \in StreamIds :
        (CancelledBeforeFirstChunk(s) /\ FragmentAfterCancel(s)) =>
            /\ StreamState(s) = "CANCELLED"
            /\ \A m \in AssistantRows(s) : EndsWith(m.content, CancelMarker)

\* C2 witness: the cancel landed while the first fragment was in hand, that
\* fragment was emitted, the next one was refused, and the buffer was persisted
\* with the marker.
C2_Witness ==
    \E s \in StreamIds :
        /\ CancelledBeforeFirstChunk(s)
        /\ FragmentAfterCancel(s)
        /\ StreamState(s) = "CANCELLED"
        /\ \E m \in AssistantRows(s) : EndsWith(m.content, CancelMarker)

\* C3: after cancel(s) reported success at most one further chunk event is emitted
\* on s, namely the fragment that was in hand when the cancel was served, and the
\* buffer holds nothing received later.
C3_AtMostOneChunkAfterCancel ==
    \A s \in StreamIds :
        CancelSucceeded(s) =>
            LET extra == NumChunks(events[s]) - NumChunks(cancel_snapshot[s].events) IN
            /\ extra \in {0, 1}
            /\ extra = 0 => full_content[s] = cancel_snapshot[s].buffer
            /\ extra = 1 =>
                  /\ cancel_snapshot[s].inhand # ""
                  /\ full_content[s] =
                        cancel_snapshot[s].buffer \o cancel_snapshot[s].inhand

\* C3 witness: a cancel served during the disconnect check, one chunk emitted after
\* it, and the stream then cancelled at the next fragment.
C3_Witness ==
    \E s \in StreamIds :
        /\ CancelSucceeded(s)
        /\ NumChunks(events[s]) = NumChunks(cancel_snapshot[s].events) + 1
        /\ pulled[s] > NumChunks(events[s])
        /\ StreamState(s) = "CANCELLED"

\* C4 as claimed: a stream in a terminal state (COMPLETED, CANCELLED, FAILED) is no
\* longer a key of the active-stream table; in particular the key is gone once
\* the done event is emitted or the assistant message is persisted.
C4_TerminalImpliesDeregistered ==
    \A s \in StreamIds :
        (StreamState(s) \in TerminalStates \/ AssistantRows(s) # {}) =>
            s \notin DOMAIN active_streams

\* A stream that has been started and has neither ended nor been abandoned.
Live(s) == StreamState(s) \in {"CREATED", "STREAMING"}

\* C5 as claimed: a stream id is a key of the active-stream table exactly while
\* its stream is started and live, also after the transport closed the generator
\* at an event it yielded.
C5_RegisteredIffLive ==
    \A s \in StreamIds : s \in DOMAIN active_streams <=> Live(s)

\* C6: nothing is emitted and nothing is pulled from the upstream producer before
\* the generator starts; when the generator is about to request the upstream
\* stream (suspended at the start event) the id is registered, the start event is
\* the only event emitted and no fragment has been pulled; the start event,
\* carrying the stream's id, stays the first and only start event of the stream.
C6_RegisteredAndStartFirst ==
    \A s \in StreamIds :
        /\ pc[s] \in {"idle", "created"} => (events[s] = << >> /\ pulled[s] = 0)
        /\ pc[s] = "y_start" =>
              /\ s \in DOMAIN active_streams
              /\ Len(events[s]) = 1
              /\ pulled[s] = 0
        /\ events[s] # << >> =>
              /\ events[s][1].type = "start"
              /\ events[s][1].stream_id = s
              /\ \A i \in 2..Len(events[s]) : events[s][i].type # "start"

\* C6 witness: the upstream stream has been requested with the id registered as
\* active and the start event as the only event so far.
C6_Witness ==
    \E s \in StreamIds :
        /\ pc[s] = "await_frag"
        /\ active_streams[s] = TRUE
        /\ events[s] = <<StartEvent(s, session_id[s])>>

\* C7: a stream that emitted an error event emitted exactly one, as its last
\* event, emitted no done event and persisted no assistant message, whatever its
\* buffer holds; a CANCELLED stream with a non-empty buffer persisted it.
C7_ErrorDiscardsCancelPersists ==
    \A s \in StreamIds :
        /\ HasEvent(s, "error") =>
              /\ LastEvent(s).type = "error"
              /\ Cardinality({i \in DOMAIN events[s] : events[s][i].type = "error"}) = 1
              /\ ~HasEvent(s, "done")
              /\ AssistantRows(s) = {}
        /\ (StreamState(s) = "CANCELLED" /\ full_content[s] # "") =>
              \E m \in AssistantRows(s) : m.content = full_content[s] \o CancelMarker

\* C7 witness: one stream failed after a chunk and persisted nothing, another was
\* cancelled with the same buffer and persisted it.
C7_Witness ==
    \E s, r \in StreamIds :
        /\ StreamState(s) = "FAILED"
        /\ NumChunks(events[s]) >= 1
        /\ AssistantRows(s) = {}
        /\ StreamState(r) = "CANCELLED"
        /\ full_content[r] = full_content[s]
        /\ AssistantRows(r) # {}

\* The loop of stream s was left by break: a fragment was pulled and not emitted.
LeftByBreak(s) == pulled[s] > NumChunks(events[s])

\* C8: on a stream with a done event, that event is the last one and its cancelled
\* flag tells whether the loop was left by break; with a non-empty buffer the one
\* assistant row of the stream holds the buffer, followed by the marker exactly
\* when cancelled, and done carries its id; with an empty buffer there is no
\* assistant row and done carries no message id.
C8_DonePersistsBuffer ==
    \A s \in StreamIds :
        HasEvent(s, "done") =>
            LET d == LastEvent(s) IN
            /\ d.type = "done"
            /\ d.cancelled = LeftByBreak(s)
            /\ IF full_content[s] # ""
               THEN /\ AssistantRows(s) =
                         {[id |-> MessageId(s, "assistant"),
                           session_id |-> session_id[s],
                           role |-> "assistant",
                           content |-> full_content[s] \o
                                (IF LeftByBreak(s) THEN CancelMarker ELSE "")]}
                    /\ "message_id" \in DOMAIN d
                    /\ d.message_id = MessageId(s, "assistant")
               ELSE /\ AssistantRows(s) = {}
                    /\ "message_id" \notin DOMAIN d

\* C8 witness: a cancelled stream that persisted its buffer with the marker next
\* to a completed one that persisted its buffer as it is.
C8_Witness ==
    \E s, r \in StreamIds :
        /\ StreamState(s) = "CANCELLED"
        /\ \E m \in AssistantRows(s) : m.content = "a" \o CancelMarker
        /\ StreamState(r) = "COMPLETED"
        /\ \E m \in AssistantRows(r) : m.content = "ab"

\* C9: right after cancel(id) a second cancel(id) would leave the table as it is,
\* and a cancel of a stream that completed naturally changes neither the table
\* nor the persisted messages.
C9_CancelIdempotent ==
    [][\A id \in CancelIds :
         CancelStream(id) =>
            /\ CancelTable(active_streams', id) = active_streams'
            /\ (id \in StreamIds /\ StreamState(id) = "COMPLETED") =>
                  /\ active_streams' = active_streams
                  /\ messages' = messages]_vars

\* C9 witness: a stream completed naturally, persisted its message, and a cancel
\* of it has been answered since.
C9_Witness ==
    \E s \in StreamIds :
        /\ StreamState(s) = "COMPLETED"
        /\ AssistantRows(s) # {}
        /\ cancel_response =
              [message |-> "Stream not found or already completed", stream_id |-> s]

\* start, then chunk events, then at most one terminal event, which is last.
EventShape(evs) ==
    evs # << >> =>
        /\ evs[1].type = "start"
        /\ \A i \in 2..Len(evs) :
              IF i < Len(evs) THEN evs[i].type = "chunk"
              ELSE evs[i].type \in {"chunk", "done", "error"}

\* C10: the events of a stream always read start, chunk*, and then at most one
\* terminal event (done or error); a generator that ran to its end has emitted
\* the terminal event; once the terminal event is emitted the stream emits
\* nothing more and its state stays what it is.
C10_EventSequence ==
    [][\A s \in StreamIds :
         /\ EventShape(events'[s])
         /\ pc'[s] = "finished" => StreamState(s)' \in TerminalStates
         /\ StreamState(s) \in TerminalStates =>
               /\ events'[s] = events[s]
               /\ StreamState(s)' = StreamState(s)]_vars

\* C10 witness: a generator that ran to its end after start, two chunks and done.
C10_Witness ==
    \E s \in StreamIds :
        /\ pc[s] = "finished"
        /\ Len(events[s]) = 4
        /\ NumChunks(events[s]) = 2
        /\ LastEvent(s).type = "done"

(***************************************************************************)
(* Document ingestion: DocumentService.chunk_text and process_document     *)
(* (backend/services/document_service.py).  process_document awaits        *)
(* nothing; its chunk_text walk is taken one window at a time because the  *)
(* walk need not end.                                                      *)
(***************************************************************************)
\* ------------------------------------------------------------------ bounds
\* Longest text drawn over TextAlphabet.
MaxTextLen == 6
\* Largest chunk_size the service is constructed with.
MaxChunkSize == 5
\* Windows after which a walk is no longer followed.
MaxWindows == 8

\* A letter, the sentence-terminating period, and whitespace.
TextAlphabet == {"a", ".", " "}
\* What str.strip() removes, as far as it occurs in the texts.
Whitespace == {" "}
ExampleText == "A. B. C."
DocumentId == "d1"

RECURSIVE TextsOfLen(_)
TextsOfLen(n) ==
    IF n = 0 THEN {""} ELSE {s \o c : s \in TextsOfLen(n - 1), c \in TextAlphabet}

Texts == UNION {TextsOfLen(n) : n \in 0..MaxTextLen} \cup {ExampleText}

\* (chunk_size, chunk_overlap) with 0 <= chunk_overlap < chunk_size.
ChunkParams == {p \in (1..MaxChunkSize) \X (0..MaxChunkSize) : p[2] < p[1]}

Min(a, b) == IF a < b THEN a ELSE b
Max(a, b) == IF a > b THEN a ELSE b

\* Python's str[lo:hi] for integer lo, hi (a negative index counts from the end).
PySlice(str, lo, hi) ==
    LET n == Len(str)
        l == IF lo < 0 THEN Max(lo + n, 0) ELSE Min(lo, n)
        h == IF hi < 0 THEN Max(hi + n, 0) ELSE Min(hi, n)
    IN IF l >= h THEN "" ELSE SubSeq(str, l + 1, h)

\* str.rfind(c): the 0-based index of the last c, -1 when there is none.
RFind(str, c) ==
    LET at == {i \in 1..Len(str) : SubSeq(str, i, i) = c}
    IN IF at = {} THEN -1 ELSE (CHOOSE i \in at : \A j \in at : j <= i) - 1

\* Mutant of Strip: the chunk is appended as it was cut.
StripNothing(str) == str

\* str.strip()
RECURSIVE Strip(_)
Strip(str) ==
    IF str = "" THEN ""
    ELSE IF SubSeq(str, 1, 1) \in Whitespace THEN Strip(SubSeq(str, 2, Len(str)))
    ELSE IF SubSeq(str, Len(str), Len(str)) \in Whitespace
         THEN Strip(SubSeq(str, 1, Len(str) - 1))
    ELSE str

\* Mutant of ShouldTrim: a period exactly at the 50% mark counts too.
ShouldTrimAtMark(last_period, size) == 2 * last_period >= size

\* Mutant of ShouldTrim: any period trims, the 50% threshold is forgotten.
ShouldTrimAnyPeriod(last_period, size) == last_period >= 0

\* last_period > self.chunk_size * 0.5   (document_service.py:54)
ShouldTrim(last_period, size) == 2 * last_period > size

\* One pass of the loop body up to the append (document_service.py:49-56): the
\* window starting at start, its end and its chunk after the sentence trim.
Window(text, start, size) ==
    LET stop == start + size
        raw == PySlice(text, start, stop)
        last_period == RFind(raw, ".")
    IN IF stop < Len(text) /\ ShouldTrim(last_period, size)
       THEN [start |-> start, stop |-> stop,
             end |-> start + Len(PySlice(raw, 0, last_period + 1)),
             chunk |-> PySlice(raw, 0, last_period + 1)]
       ELSE [start |-> start, stop |-> stop, end |-> stop, chunk |-> raw]

\* Mutant of NextStart: the overlap is not stepped back.
NextStartNoOverlap(w, size, overlap) == w.end

\* Mutant of NextStart: the stride is taken from the window's start.
NextStartFixedStride(w, size, overlap) == w.start + size - overlap

\* start = end - self.chunk_overlap   (document_service.py:59)
NextStart(w, size, overlap) == w.end - overlap

\* [c for c in chunks if c]   (document_service.py:61)
NonEmpty(chunks) == LET Keep(c) == c # "" IN SelectSeq(chunks, Keep)

\* Mutant of ChunkRows: chunk_index counts from 1.
ChunkRowsFromOne(doc, chunks) ==
    [i \in 1..Len(chunks) |->
        [document_id |-> doc, content |-> chunks[i], chunk_index |-> i]]

\* The rows process_document adds, enumerate(chunks)   (document_service.py:80-84)
ChunkRows(doc, chunks) ==
    [i \in 1..Len(chunks) |->
        [document_id |-> doc, content |-> chunks[i], chunk_index |-> i - 1]]

\* -------------------------------------------------------------- actions
\* process_document up to the call of chunk_text, and chunk_text up to its loop
\* (document_service.py:67-79, 42-46): the document row is committed first.
ProcessDocument ==
    /\ ct_pc = "idle"
    /\ \E text \in Texts :
        /\ ct_text' = text
        /\ documents' = documents \cup
              {[id |-> DocumentId, content |-> text, chunk_count |-> 0]}
        /\ ct_pc' = IF text = "" THEN "chunked" ELSE "walk"
    /\ ct_start' = 0
    /\ ct_chunks' = << >>
    /\ ct_windows' = << >>
    /\ ct_result' = << >>
    /\ UNCHANGED <<chunk_size, chunk_overlap, document_chunks, streamVars, searchVars, svcVars>>

\* One iteration of the while loop (document_service.py:48-59).
ChunkWindow ==
    /\ ct_pc = "walk"
    /\ ct_start < Len(ct_text)
    /\ Len(ct_windows) < MaxWindows
    /\ LET w == Window(ct_text, ct_start, chunk_size) IN
        /\ ct_chunks' = Append(ct_chunks, Strip(w.chunk))
        /\ ct_windows' = Append(ct_windows, w)
        /\ ct_start' = NextStart(w, chunk_size, chunk_overlap)
    /\ UNCHANGED <<ct_pc, ct_text, chunk_size, chunk_overlap, ct_result, documents,
                   document_chunks, streamVars, searchVars, svcVars>>

\* The loop ends and chunk_text returns (document_service.py:48, 61).
ChunkReturn ==
    /\ ct_pc = "walk"
    /\ ~(ct_start < Len(ct_text))
    /\ ct_result' = NonEmpty(ct_chunks)
    /\ ct_pc' = "chunked"
    /\ UNCHANGED <<ct_text, chunk_size, chunk_overlap, ct_start, ct_chunks, ct_windows,
                   documents, document_chunks, streamVars, searchVars, svcVars>>

\* process_document after chunk_text returned (document_service.py:80-90).
StoreChunks ==
    /\ ct_pc = "chunked"
    /\ document_chunks' = document_chunks \o ChunkRows(DocumentId, ct_result)
    /\ documents' = {[id |-> DocumentId, content |-> ct_text,
                      chunk_count |-> Len(ct_result)]}
    /\ ct_pc' = "stored"
    /\ UNCHANGED <<ct_text, chunk_size, chunk_overlap, ct_start, ct_chunks, ct_windows,
                   ct_result, streamVars, searchVars, svcVars>>

\* DocumentService(chunk_size, chunk_overlap) constructed (document_service.py:9-11).
InitChunker ==
    /\ StreamInit
    /\ SearchIdle
    /\ SvcIdle
    /\ ct_pc = "idle"
    /\ ct_text = ""
    /\ \E p \in ChunkParams : chunk_size = p[1] /\ chunk_overlap = p[2]
    /\ ct_start = 0
    /\ ct_chunks = << >>
    /\ ct_windows = << >>
    /\ ct_result = << >>
    /\ documents = {}
    /\ document_chunks = << >>

NextChunker ==
    \/ ProcessDocument
    \/ ChunkWindow
    \/ ChunkReturn
    \/ StoreChunks

SpecChunker == InitChunker /\ [][NextChunker]_vars

\* chunk_text has returned.
Chunked == ct_pc \in {"chunked", "stored"}

\* The walk has dropped a window that was empty after stripping.
DroppedWindow == \E i \in 1..Len(ct_chunks) : ct_chunks[i] = ""

FirstChar(str) == SubSeq(str, 1, 1)
LastChar(str) == SubSeq(str, Len(str), Len(str))

\* C15: chunk_text returns the empty list for the empty text, and every chunk it
\* returns is non-empty with no leading and no trailing whitespace.
C15_ChunksStrippedNonEmpty ==
    Chunked =>
        /\ (ct_text = "" => ct_result = << >>)
        /\ \A i \in 1..Len(ct_result) :
              /\ ct_result[i] # ""
              /\ FirstChar(ct_result[i]) \notin Whitespace
              /\ LastChar(ct_result[i]) \notin Whitespace

\* A walk that has returned chunks after stripping one and dropping another.
C15_Witness ==
    /\ Chunked
    /\ DroppedWindow
    /\ Len(ct_result) >= 1
    /\ \E i \in 1..Len(ct_windows) :
          ct_chunks[i] # "" /\ ct_chunks[i] # ct_windows[i].chunk

\* C16: on every step of the walk the window start strictly increases.
C16_StartStrictlyIncreases ==
    [][(ct_pc = "walk" /\ ct_windows' # ct_windows) => ct_start' > ct_start]_vars

\* The characters of a window before any trim.
RawWindow(w) == PySlice(ct_text, w.start, w.stop)

\* 0-based positions k of the periods of str with 2 * k >= twice_min.
PeriodsFrom(str, twice_min) ==
    {k \in 0..(Len(str) - 1) : SubSeq(str, k + 1, k + 1) = "." /\ 2 * k >= twice_min}

LastOf(S) == CHOOSE i \in S : \A j \in S : j <= i

\* The window w is cut just after its last period at a position k with
\* 2 * k >= twice_min, kept whole when it has none or when it reaches the end of
\* the text.
CutAfterLastPeriod(w, twice_min) ==
    LET raw == RawWindow(w)
        at == PeriodsFrom(raw, twice_min)
    IN IF w.stop < Len(ct_text) /\ at # {}
       THEN w.chunk = SubSeq(raw, 1, LastOf(at) + 1) /\ w.end = w.start + LastOf(at) + 1
       ELSE w.chunk = raw /\ w.end = w.stop

\* C17 as stated: the cut is after the last period at or after the 50% mark
\* (position k with 2 * k >= chunk_size).
C17_TrimAtOrAfterMark ==
    \A i \in 1..Len(ct_windows) : CutAfterLastPeriod(ct_windows[i], chunk_size)

\* C17: a window that does not reach the end of the text is cut just after its
\* last period whose 0-based position is strictly greater than chunk_size / 2
\* (2 * k > chunk_size), and kept at full length without one; the last window
\* is never trimmed.
C17_TrimStrictlyAfterMark ==
    \A i \in 1..Len(ct_windows) :
        LET w == ct_windows[i]
        IN /\ CutAfterLastPeriod(w, chunk_size + 1)
           /\ (w.stop < Len(ct_text) /\ w.end = w.stop) => Len(w.chunk) = chunk_size

\* A window short of the end of the text whose last period sits exactly on the
\* 50% mark, and which was kept whole.
C17_Witness ==
    \E i \in 1..Len(ct_windows) :
        LET w == ct_windows[i] IN
        /\ w.stop < Len(ct_text)
        /\ 2 * RFind(RawWindow(w), ".") = chunk_size
        /\ w.end = w.stop

\* C18: each window after the first starts chunk_overlap before the end of the
\* previous one, and when the walk has ended the windows cover every position.
C18_WindowsCoverText ==
    /\ \A i \in 2..Len(ct_windows) :
          ct_windows[i].start = ct_windows[i - 1].end - chunk_overlap
    /\ (Chunked /\ ct_text # "") =>
          /\ ct_windows[1].start = 0
          /\ \A pos \in 0..(Len(ct_text) - 1) :
                \E i \in 1..Len(ct_windows) :
                    ct_windows[i].start <= pos /\ pos < ct_windows[i].end

\* A finished walk in which a trimmed window was followed by another.
C18_Witness ==
    /\ Chunked
    /\ \E i \in 1..(Len(ct_windows) - 1) : ct_windows[i].end < ct_windows[i].stop

\* chunk_text("A. B. C.", chunk_size=4, chunk_overlap=1) has returned.
ExampleChunked ==
    Chunked /\ ct_text = ExampleText /\ chunk_size = 4 /\ chunk_overlap = 1

\* C19 as stated: every fragment of the example ends with a period.
C19_ExampleFragmentsEndWithPeriod ==
    ExampleChunked =>
        /\ Len(ct_result) = 3
        /\ \A i \in 1..Len(ct_result) : LastChar(ct_result[i]) = "."

\* C19: the example returns "A. B", "B. C", "C." (no window has a period past
\* the 50% mark, so none is trimmed and only the last ends with a period).
C19_ExampleFragments ==
    ExampleChunked => ct_result = <<"A. B", "B. C", "C.">>

C19_Witness == ExampleChunked /\ Len(ct_windows) = 3

\* process_document has stored the document.
Stored == ct_pc = "stored"

\* C20: the stored chunks carry chunk_index 0..n-1 in the order chunk_text
\* returned them, and the document's chunk_count is n.
C20_ChunkIndexContiguous ==
    Stored =>
        /\ Len(document_chunks) = Len(ct_result)
        /\ \A i \in 1..Len(document_chunks) :
              /\ document_chunks[i].document_id = DocumentId
              /\ document_chunks[i].chunk_index = i - 1
              /\ document_chunks[i].content = ct_result[i]
        /\ \A d \in documents :
              d.id = DocumentId => d.chunk_count = Len(ct_result)
        /\ \E d \in documents : d.id = DocumentId

\* A stored document with an empty window dropped between two kept chunks.
C20_Witness ==
    /\ Stored
    /\ Len(document_chunks) >= 2
    /\ \E i \in 2..(Len(ct_chunks) - 1) :
          ct_chunks[i] = "" /\ ct_chunks[i - 1] # "" /\ ct_chunks[i + 1] # ""

(***************************************************************************)
(* Retrieval: RAGService.search_documents and get_context                  *)
(* (backend/services/rag_service.py).  The service keeps no state of its   *)
(* own: a call reads the stored chunks and returns.                        *)
(***************************************************************************)
\* ------------------------------------------------------------------ bounds
\* Largest number of stored chunks a call iterates over.
MaxCorpus == 3

\* r.content[:100], len(r.content) > 100   (rag_service.py:54-55)
PreviewLen == 100
\* top_k: int = 5   (rag_service.py:17)
DefaultTopK == 5

RECURSIVE Repeat(_, _)
Repeat(str, n) == IF n = 0 THEN "" ELSE str \o Repeat(str, n - 1)

\* Contents of exactly PreviewLen characters and of one more.
Content100 == Repeat("stock cat ", 10)
Content101 == Content100 \o "s"

\* The DocumentChunk rows a corpus is drawn from.
ChunkPool ==
    { [document_id |-> "d1", chunk_index |-> 0, content |-> "Apple stock price rose"],
      [document_id |-> "d1", chunk_index |-> 1, content |-> "Weather today"],
      [document_id |-> "d2", chunk_index |-> 0, content |-> "category"],
      [document_id |-> "d2", chunk_index |-> 1, content |-> "Cat"],
      [document_id |-> "d3", chunk_index |-> 0, content |-> Content100],
      [document_id |-> "d3", chunk_index |-> 1, content |-> Content101] }

\* db.exec(select(DocumentChunk)).all(): the stored rows in any iteration order.
Corpora ==
    UNION { {c \in [1..n -> ChunkPool] : \A i, j \in 1..n : c[i] = c[j] => i = j}
            : n \in 0..MaxCorpus }

Queries == {"stock price", "cat", "CAT  cat", "Cat Stock", "xyz", ""}
TopKs == {-1, 0, 1, 2, DefaultTopK}

\* The letters str.lower() changes, with their lowercase forms.
LowerOf ==
    "A" :> "a" @@ "B" :> "b" @@ "C" :> "c" @@ "D" :> "d" @@ "E" :> "e" @@ "F" :> "f"
    @@ "G" :> "g" @@ "H" :> "h" @@ "I" :> "i" @@ "J" :> "j" @@ "K" :> "k" @@ "L" :>
    "l" @@ "M" :> "m" @@ "N" :> "n" @@ "O" :> "o" @@ "P" :> "p" @@ "Q" :> "q" @@ "R"
    :> "r" @@ "S" :> "s" @@ "T" :> "t" @@ "U" :> "u" @@ "V" :> "v" @@ "W" :> "w" @@
    "X" :> "x" @@ "Y" :> "y" @@ "Z" :> "z"

LowerChar(c) == IF c \in DOMAIN LowerOf THEN LowerOf[c] ELSE c

\* str.lower()
RECURSIVE Lower(_)
Lower(str) ==
    IF Len(str) = 0 THEN ""
    ELSE IF Len(str) = 1 THEN LowerChar(str)
    ELSE Lower(SubSeq(str, 1, Len(str) \div 2))
         \o Lower(SubSeq(str, Len(str) \div 2 + 1, Len(str)))

\* Length of the longest whitespace-free prefix of str.
RECURSIVE WordLen(_)
WordLen(str) ==
    IF str = "" \/ SubSeq(str, 1, 1) \in Whitespace THEN 0
    ELSE 1 + WordLen(SubSeq(str, 2, Len(str)))

\* str.split(): the maximal whitespace-free runs, in order.
RECURSIVE Split(_)
Split(str) ==
    IF str = "" THEN << >>
    ELSE IF SubSeq(str, 1, 1) \in Whitespace THEN Split(SubSeq(str, 2, Len(str)))
    ELSE <<SubSeq(str, 1, WordLen(str))>> \o Split(SubSeq(str, WordLen(str) + 1, Len(str)))

\* Mutant of KeywordIn: a keyword matches only a whole word of the content.
KeywordIsToken(keyword, content_lower) ==
    \E i \in 1..Len(Split(content_lower)) : Split(content_lower)[i] = keyword

\* keyword in content_lower   (rag_service.py:27)
KeywordIn(keyword, content_lower) == Contains(content_lower, keyword)

\* sum(1 for keyword in keywords if keyword in content_lower)   (rag_service.py:27)
RECURSIVE Score(_, _)
Score(keywords, content_lower) ==
    IF keywords = << >> THEN 0
    ELSE (IF KeywordIn(Head(keywords), content_lower) THEN 1 ELSE 0)
         + Score(Tail(keywords), content_lower)

\* The for loop of search_documents (rag_service.py:24-37): one SearchResult per
\* chunk with a positive score, in iteration order.
RECURSIVE Scored(_, _)
Scored(chunks, keywords) ==
    IF chunks = << >> THEN << >>
    ELSE LET row == Head(chunks)
             score == Score(keywords, Lower(row.content))
         IN (IF score > 0
             THEN << [content |-> row.content, document_id |-> row.document_id,
                      chunk_index |-> row.chunk_index, score |-> score] >>
             ELSE << >>)
            \o Scored(Tail(chunks), keywords)

\* Mutant of InsertDesc: r goes before the results it ties with.
InsertDescBeforeTies(sorted, r) ==
    LET Above(x) == x.score > r.score
        Rest(x) == ~(x.score > r.score)
    IN SelectSeq(sorted, Above) \o <<r>> \o SelectSeq(sorted, Rest)

\* r placed into a list sorted by score descending, after the results it ties with.
InsertDesc(sorted, r) ==
    LET AboveOrTie(x) == x.score >= r.score
        Below(x) == x.score < r.score
    IN SelectSeq(sorted, AboveOrTie) \o <<r>> \o SelectSeq(sorted, Below)

\* results.sort(key=lambda x: x.score, reverse=True)   (rag_service.py:39):
\* list.sort is stable, also with reverse=True.
RECURSIVE SortDesc(_)
SortDesc(results) ==
    IF results = << >> THEN << >>
    ELSE InsertDesc(SortDesc(SubSeq(results, 1, Len(results) - 1)),
                    results[Len(results)])

\* results[:top_k] for any integer top_k   (rag_service.py:40)
PyPrefix(results, top_k) ==
    LET n == Len(results)
        h == IF top_k < 0 THEN Max(top_k + n, 0) ELSE Min(top_k, n)
    IN SubSeq(results, 1, h)

\* The full ranking, before the cut.
Ranking(chunks, query) == SortDesc(Scored(chunks, Split(Lower(query))))

\* search_documents(db, query, top_k)   (rag_service.py:16-40)
search_documents(chunks, query, top_k) == PyPrefix(Ranking(chunks, query), top_k)

\* Mutant of Preview: a content of exactly 100 characters is cut as well.
PreviewAtLimit(content) ==
    IF Len(content) >= PreviewLen THEN SubSeq(content, 1, PreviewLen) \o "..." ELSE content

\* r.content[:100] + "..." if len(r.content) > 100 else r.content
Preview(content) ==
    IF Len(content) > PreviewLen THEN SubSeq(content, 1, PreviewLen) \o "..." ELSE content

Source(r) ==
    [document_id |-> r.document_id, chunk_index |-> r.chunk_index,
     preview |-> Preview(r.content)]

\* -------------------------------------------------------------- actions
\* A call of search_documents on the stored chunks (rag_service.py:16-40).
SearchDocuments ==
    /\ sr_call.op = "none"
    /\ \E query \in Queries, top_k \in TopKs :
        /\ sr_call' = [op |-> "search_documents", query |-> query, top_k |-> top_k]
        /\ sr_results' = search_documents(document_chunks, query, top_k)
    /\ UNCHANGED <<sr_contexts, sr_sources, document_chunks, streamVars, chunkerVars, svcVars>>

\* A call of get_context on the stored chunks (rag_service.py:42-61).
GetContext ==
    /\ sr_call.op = "none"
    /\ \E query \in Queries, top_k \in TopKs :
        LET results == search_documents(document_chunks, query, top_k) IN
        /\ sr_call' = [op |-> "get_context", query |-> query, top_k |-> top_k]
        /\ sr_results' = results
        /\ sr_contexts' = [i \in 1..Len(results) |-> results[i].content]
        /\ sr_sources' = [i \in 1..Len(results) |-> Source(results[i])]
    /\ UNCHANGED <<document_chunks, streamVars, chunkerVars, svcVars>>

\* The stored chunks a call finds.
InitSearch ==
    /\ StreamInit
    /\ ChunkerIdle
    /\ SearchIdle
    /\ SvcIdle
    /\ document_chunks \in Corpora

NextSearch ==
    \/ SearchDocuments
    \/ GetContext

SpecSearch == InitSearch /\ [][NextSearch]_vars

\* A call has returned.
Returned == sr_call.op # "none"

Keywords == Split(Lower(sr_call.query))

\* Position of the result r in the iteration order of the stored chunks.
CorpusPos(r) ==
    CHOOSE i \in 1..Len(document_chunks) :
        /\ document_chunks[i].document_id = r.document_id
        /\ document_chunks[i].chunk_index = r.chunk_index

\* Number of keywords, repeats included, that are a substring of the lowercased
\* content.
MatchCount(content) ==
    Cardinality({k \in 1..Len(Keywords) : Contains(Lower(content), Keywords[k])})

\* The stored chunks whose content matches at least one keyword.
Matching == {i \in 1..Len(document_chunks) : MatchCount(document_chunks[i].content) > 0}

\* search("stock price", ["Apple stock price rose", "Weather today"], top_k=5)
ExampleSearch ==
    /\ Returned
    /\ sr_call.query = "stock price"
    /\ sr_call.top_k = DefaultTopK
    /\ Len(document_chunks) = 2
    /\ document_chunks[1].content = "Apple stock price rose"
    /\ document_chunks[2].content = "Weather today"

\* C11: a result's score is the number of lowercased whitespace-delimited query
\* keywords that are substrings of its chunk's lowercased content; chunks of
\* score 0 are not returned, every matching chunk is when top_k allows it, and
\* the example returns only its first chunk, with score 2.
C11_ScoreIsKeywordSubstringCount ==
    Returned =>
        /\ \A i \in 1..Len(sr_results) :
              /\ \E j \in 1..Len(document_chunks) :
                    /\ document_chunks[j].content = sr_results[i].content
                    /\ document_chunks[j].document_id = sr_results[i].document_id
                    /\ document_chunks[j].chunk_index = sr_results[i].chunk_index
              /\ sr_results[i].score = MatchCount(sr_results[i].content)
              /\ sr_results[i].score >= 1
        /\ (Matching = {} => sr_results = << >>)
        /\ (sr_call.top_k >= Len(document_chunks) =>
              Len(sr_results) = Cardinality(Matching))
        /\ (ExampleSearch =>
              sr_results = << [content |-> "Apple stock price rose", document_id |-> "d1",
                               chunk_index |-> 0, score |-> 2] >>)

\* The example has returned its one result.
C11_Witness == ExampleSearch /\ Len(sr_results) = 1

\* C12: results are ordered by score non-increasing, and results of equal score
\* keep the relative order of their chunks in the corpus iteration order.
C12_StableDescendingOrder ==
    Returned =>
        \A i, j \in 1..Len(sr_results) :
            i < j =>
                /\ sr_results[i].score >= sr_results[j].score
                /\ (sr_results[i].score = sr_results[j].score =>
                        CorpusPos(sr_results[i]) < CorpusPos(sr_results[j]))

\* A ranking with a tie, and with a result moved ahead of an earlier chunk.
C12_Witness ==
    /\ Returned
    /\ \E i, j \in 1..Len(sr_results) :
          i < j /\ sr_results[i].score = sr_results[j].score
    /\ \E i, j \in 1..Len(sr_results) :
          i < j /\ CorpusPos(sr_results[i]) > CorpusPos(sr_results[j])

\* C13: the results are the first top_k entries of the full ranking, never more
\* than max(top_k, 0) of them.
C13_AtMostTopK ==
    Returned =>
        /\ sr_results = SubSeq(Ranking(document_chunks, sr_call.query), 1, Len(sr_results))
        /\ Len(sr_results) <= Max(sr_call.top_k, 0)

\* C14: get_context returns as many contexts as sources, in the ranked order of
\* search_documents; the i-th context is the i-th result's content, the i-th
\* source carries its document id, chunk index and preview (the content when
\* it has at most 100 characters, else its first 100 characters and "...").
C14_ContextsAndSources ==
    sr_call.op = "get_context" =>
        /\ sr_results = search_documents(document_chunks, sr_call.query, sr_call.top_k)
        /\ Len(sr_contexts) = Len(sr_sources)
        /\ Len(sr_contexts) = Len(sr_results)
        /\ \A i \in 1..Len(sr_results) :
              LET r == sr_results[i] IN
              /\ sr_contexts[i] = r.content
              /\ sr_sources[i].document_id = r.document_id
              /\ sr_sources[i].chunk_index = r.chunk_index
              /\ (Len(r.content) <= 100 => sr_sources[i].preview = r.content)
              /\ (Len(r.content) > 100 =>
                      sr_sources[i].preview = SubSeq(r.content, 1, 100) \o "...")

\* get_context returned a content of exactly 100 characters whole and a longer
\* one cut.
C14_Witness ==
    /\ sr_call.op = "get_context"
    /\ \E i \in 1..Len(sr_sources) :
          Len(sr_contexts[i]) = 100 /\ sr_sources[i].preview = sr_contexts[i]
    /\ \E i \in 1..Len(sr_sources) :
          Len(sr_contexts[i]) = 101 /\ Len(sr_sources[i].preview) = 103

(***************************************************************************)
(* Further properties of the chunk_text walk (SpecChunker).                *)
(***************************************************************************)
\* C24 as stated: every window after the first starts chunk_size - chunk_overlap
\* after the start of the previous one.
C24_FixedStride ==
    \A i \in 2..Len(ct_windows) :
        ct_windows[i].start = ct_windows[i - 1].start + chunk_size - chunk_overlap

\* C24: a window after the first starts chunk_size - chunk_overlap after the
\* previous start when the previous window was kept whole, and only the length
\* of the previous chunk minus chunk_overlap after it when that window was
\* trimmed to a sentence boundary.
C24_StrideFollowsTrim ==
    \A i \in 2..Len(ct_windows) :
        LET prev == ct_windows[i - 1]
            trimmed == prev.stop < Len(ct_text) /\ Len(prev.chunk) < chunk_size
        IN ct_windows[i].start - prev.start =
              (IF trimmed THEN Len(prev.chunk) ELSE chunk_size) - chunk_overlap

\* A walk that went on after a trimmed window, with a positive overlap.
C24_Witness ==
    /\ chunk_overlap > 0
    /\ \E i \in 2..Len(ct_windows) :
          Len(ct_windows[i - 1].chunk) < chunk_size /\ ct_windows[i - 1].stop < Len(ct_text)

\* C30: a text with a non-whitespace character and no longer than chunk_size
\* comes back as exactly one chunk, the stripped text.
C30_ShortTextOneChunk ==
    (Chunked /\ Len(ct_text) <= chunk_size /\ Strip(ct_text) # "") =>
        ct_result = <<Strip(ct_text)>>

(***************************************************************************)
(* Further properties of the streaming routes (Spec).                      *)
(***************************************************************************)
\* The done event a stream ends with when it was stopped.
EndsCancelled(s) ==
    /\ events[s] # << >>
    /\ LastEvent(s).type = "done"
    /\ LastEvent(s).cancelled

\* The step takes a fragment from the upstream producer for stream s.
TakesFragment(s) == pulled'[s] = pulled[s] + 1

\* The step is the answer of request.is_disconnected() for stream s.
AnswersDisconnect(s) == pc[s] = "await_disc" /\ pc'[s] # "await_disc"

\* After the step stream s has stopped pulling, marked cancelled, with the
\* buffer and the chunk events as they were.
StoppedWithoutFragment(s) ==
    /\ cancelled'[s]
    /\ pc'[s] = "y_done"
    /\ full_content'[s] = full_content[s]
    /\ NumChunks(events'[s]) = NumChunks(events[s])
    /\ EndsCancelled(s)'

\* C22: per fragment the loop (1) stops, cancelled, when the flag is inactive or
\* missing, (2) else stops, cancelled, when the client is disconnected, (3) else
\* appends the fragment to the buffer and emits it as one chunk event; the
\* fragment in hand at (1) or (2) is neither appended nor emitted.
C22_LoopOrder ==
    [][\A s \in StreamIds :
        /\ TakesFragment(s) =>
              IF ~IsActive(active_streams, s)
              THEN StoppedWithoutFragment(s)
              ELSE /\ pc'[s] = "await_disc"
                   /\ chunk'[s] = FragmentAt(pulled'[s])
                   /\ full_content'[s] = full_content[s]
                   /\ events'[s] = events[s]
        /\ AnswersDisconnect(s) =>
              \/ StoppedWithoutFragment(s)
              \/ /\ full_content'[s] = full_content[s] \o chunk[s]
                 /\ events'[s] = Append(events[s], ChunkEvent(chunk[s]))
                 /\ ~cancelled'[s]]_vars

\* A stream stopped by the disconnect check on its second fragment, after one
\* chunk event, with no cancel request for it.
C22_Witness ==
    \E s \in StreamIds :
        /\ EndsCancelled(s)
        /\ ~CancelSucceeded(s)
        /\ pulled[s] = 2
        /\ NumChunks(events[s]) = 1

\* The entry of stream s in the table: whether the key is there, and its flag.
Entry(tbl, s) == [present |-> s \in DOMAIN tbl, flag |-> IsActive(tbl, s)]

\* The rows a stream's request has persisted.
RowsOf(s) == {m \in messages : m.id[1] = s}

\* The step is an operation on stream a: a step of its request or generator, or
\* a cancel request for it.
OperatesOn(a) == pc'[a] # pc[a] \/ pulled'[a] # pulled[a] \/ CancelStream(a)

\* C23: an operation on stream a (registration, cancel, cleanup, any step of
\* its generator) leaves the table entry, the events, the buffer and the
\* persisted rows of every other stream b as they were.
C23_OtherStreamsUntouched ==
    [][\A a, b \in StreamIds :
        (a # b /\ OperatesOn(a) /\ ~OperatesOn(b)) =>
            /\ Entry(active_streams', b) = Entry(active_streams, b)
            /\ events'[b] = events[b]
            /\ full_content'[b] = full_content[b]
            /\ cancelled'[b] = cancelled[b]
            /\ RowsOf(b)' = RowsOf(b)]_vars

\* Two streams were in flight: one was cancelled and is gone from the table, the
\* other is still registered active and has emitted a chunk since.
C23_Witness ==
    \E a, b \in StreamIds :
        /\ a # b
        /\ CancelSucceeded(a)
        /\ EndsCancelled(a)
        /\ a \notin DOMAIN active_streams
        /\ IsActive(active_streams, b)
        /\ NumChunks(events[b]) >= 1

\* The contents of the chunk events of evs, concatenated in emission order.
RECURSIVE ChunkConcat(_)
ChunkConcat(evs) ==
    IF evs = << >> THEN ""
    ELSE (IF Head(evs).type = "chunk" THEN Head(evs).content ELSE "")
         \o ChunkConcat(Tail(evs))

\* content without the trailing " [cancelled]".
WithoutMarker(content) ==
    IF EndsWith(content, CancelMarker)
    THEN SubSeq(content, 1, Len(content) - Len(CancelMarker))
    ELSE content

\* C27: for a stream that ended COMPLETED or CANCELLED the persisted assistant
\* content, without the cancellation marker, is the concatenation of the chunk
\* events emitted on it; with no chunk event there is no assistant message.
C27_PersistedEqualsEmitted ==
    \A s \in StreamIds :
        StreamState(s) \in {"COMPLETED", "CANCELLED"} =>
            /\ \A m \in AssistantRows(s) :
                  WithoutMarker(m.content) = ChunkConcat(events[s])
            /\ (NumChunks(events[s]) > 0 <=> AssistantRows(s) # {})
            /\ Cardinality(AssistantRows(s)) <= 1

\* A stream stopped with a fragment in hand after it had emitted a chunk.
C27_Witness ==
    \E s \in StreamIds :
        /\ StreamState(s) = "CANCELLED"
        /\ LeftByBreak(s)
        /\ NumChunks(events[s]) >= 1
        /\ AssistantRows(s) # {}

\* The user message of stream s is persisted in its session.
UserMessagePersisted(s) ==
    \E m \in messages :
        /\ m.id = MessageId(s, "user")
        /\ m.role = "user"
        /\ m.session_id = session_id[s]

\* C28: the user message is persisted before the stream is registered and
\* before the start event, and stays; after a FAILED stream, or a COMPLETED or
\* CANCELLED one with an empty buffer, no assistant message follows it.
C28_UserMessageKept ==
    \A s \in StreamIds :
        /\ pc[s] # "idle" => UserMessagePersisted(s)
        /\ (s \in DOMAIN active_streams \/ events[s] # << >>) => UserMessagePersisted(s)
        /\ StreamState(s) = "FAILED" => AssistantRows(s) = {}
        /\ (StreamState(s) \in {"COMPLETED", "CANCELLED"} /\ full_content[s] = "") =>
              AssistantRows(s) = {}

\* A stream that failed with fragments already in its buffer: the user message
\* is there, no assistant message is.
C28_Witness ==
    \E s \in StreamIds :
        /\ StreamState(s) = "FAILED"
        /\ full_content[s] # ""
        /\ UserMessagePersisted(s)
        /\ AssistantRows(s) = {}

(***************************************************************************)
(* Chat agent: AgentService.chat, chat_stream and _track_metrics           *)
(* (backend/services/agent_service.py).                                    *)
(***************************************************************************)
\* ------------------------------------------------------------------ bounds
\* Calls of chat / chat_stream followed in one behaviour.
MaxAgentCalls == 2

\* input_text[:500], output_text[:500]   (agent_service.py:192-193)
OutputLimit == 500

\* What agent.arun answers a chat call with (response.content).
AgentResponses == {"ok", ModelResponse}

\* Where _track_metrics can fail: nowhere, at its imports, opening the session,
\* at the commit (agent_service.py:167-170, 186, 210).
MetricsFailures == {"none", "import", "session", "commit"}

NoOutput == "<None>"

\* The EvalResult row of a run (agent_service.py:187-208).
EvalResult(input_text, output_text) ==
    [eval_type |-> "performance",
     input_text |-> PySlice(input_text, 0, OutputLimit),
     actual_output |-> IF output_text # "" THEN PySlice(output_text, 0, OutputLimit)
                       ELSE NoOutput,
     status |-> "completed"]

\* Mutant of TrackMetrics: a failure inside is raised to the caller.
TrackMetricsPropagates(rows, input_text, output_text, failure) ==
    IF failure = "none"
    THEN [rows |-> Append(rows, EvalResult(input_text, output_text)),
          warned |-> FALSE, raised |-> FALSE]
    ELSE [rows |-> rows, warned |-> FALSE, raised |-> TRUE]

\* _track_metrics (agent_service.py:154-213): the row is committed, or the
\* failure is caught by `except Exception` and a warning is printed.
TrackMetrics(rows, input_text, output_text, failure) ==
    IF failure = "none"
    THEN [rows |-> Append(rows, EvalResult(input_text, output_text)),
          warned |-> FALSE, raised |-> FALSE]
    ELSE [rows |-> rows, warned |-> TRUE, raised |-> FALSE]

\* full_response of chat_stream: the fragments yielded so far, concatenated.
RECURSIVE Joined(_)
Joined(fragments) ==
    IF fragments = << >> THEN "" ELSE Head(fragments) \o Joined(Tail(fragments))

\* No call is in progress.
AgentAtRest == {"idle", "returned", "exhausted", "raised", "closed"}

\* -------------------------------------------------------------- actions
\* chat() up to the await of agent.arun (agent_service.py:215-319).
AgentChat ==
    /\ ag_pc \in AgentAtRest
    /\ ag_calls < MaxAgentCalls
    /\ \E message \in Prompts : ag_call' = [op |-> "chat", message |-> message]
    /\ ag_pc' = "arun"
    /\ ag_response' = ""
    /\ ag_yielded' = << >>
    /\ ag_result' = NoResult
    /\ ag_failure' = "none"
    /\ ag_calls' = ag_calls + 1
    /\ UNCHANGED <<ag_warnings, eval_results, mcpVars, streamVars, chunkerVars,
                   searchVars, document_chunks>>

\* agent.arun answers: metrics are tracked, the content is returned
\* (agent_service.py:319-361).
AgentChatReturns ==
    /\ ag_pc = "arun"
    /\ \E response \in AgentResponses, failure \in MetricsFailures :
        LET tm == TrackMetrics(eval_results, ag_call.message, response, failure) IN
        /\ ag_response' = response
        /\ ag_failure' = failure
        /\ eval_results' = tm.rows
        /\ ag_warnings' = ag_warnings + (IF tm.warned THEN 1 ELSE 0)
        /\ ag_pc' = IF tm.raised THEN "raised" ELSE "returned"
        /\ ag_result' = IF tm.raised THEN ag_result ELSE response
    /\ UNCHANGED <<ag_call, ag_yielded, ag_calls, mcpVars, streamVars, chunkerVars,
                   searchVars, document_chunks>>

\* chat_stream() up to the first pull from response_stream
\* (agent_service.py:363-476).
AgentChatStream ==
    /\ ag_pc \in AgentAtRest
    /\ ag_calls < MaxAgentCalls
    /\ \E message \in Prompts : ag_call' = [op |-> "chat_stream", message |-> message]
    /\ ag_pc' = "streaming"
    /\ ag_response' = ""
    /\ ag_yielded' = << >>
    /\ ag_result' = NoResult
    /\ ag_failure' = "none"
    /\ ag_calls' = ag_calls + 1
    /\ UNCHANGED <<ag_warnings, eval_results, mcpVars, streamVars, chunkerVars,
                   searchVars, document_chunks>>

\* response_stream delivers a chunk with content: it is added to full_response
\* and yielded (agent_service.py:476-483).
AgentStreamFragment ==
    /\ ag_pc = "streaming"
    /\ Len(ag_yielded) < MaxFragments
    /\ ag_yielded' = Append(ag_yielded, FragmentAt(Len(ag_yielded) + 1))
    /\ ag_response' = ag_response \o FragmentAt(Len(ag_yielded) + 1)
    /\ UNCHANGED <<ag_pc, ag_call, ag_result, ag_failure, ag_warnings, eval_results,
                   ag_calls, mcpVars, streamVars, chunkerVars, searchVars,
                   document_chunks>>

\* response_stream is exhausted: metrics are tracked and the generator ends
\* (agent_service.py:501-518).
AgentStreamEnds ==
    /\ ag_pc = "streaming"
    /\ \E failure \in MetricsFailures :
        LET tm == TrackMetrics(eval_results, ag_call.message, ag_response, failure) IN
        /\ ag_failure' = failure
        /\ eval_results' = tm.rows
        /\ ag_warnings' = ag_warnings + (IF tm.warned THEN 1 ELSE 0)
        /\ ag_pc' = IF tm.raised THEN "raised" ELSE "exhausted"
    /\ UNCHANGED <<ag_call, ag_response, ag_yielded, ag_result, ag_calls, mcpVars,
                   streamVars, chunkerVars, searchVars, document_chunks>>

\* The consumer stops pulling (break in generate(), chat.py:178-185) and the
\* generator is dropped at its yield: the code after the loop never runs.
AgentStreamClosed ==
    /\ ag_pc = "streaming"
    /\ ag_yielded # << >>
    /\ ag_pc' = "closed"
    /\ UNCHANGED <<ag_call, ag_response, ag_yielded, ag_result, ag_failure,
                   ag_warnings, eval_results, ag_calls, mcpVars, streamVars,
                   chunkerVars, searchVars, document_chunks>>

\* agent.arun raises (the provider fails): the exception leaves chat or
\* chat_stream (agent_service.py:319, 474-476).
AgentUpstreamRaises ==
    /\ ag_pc \in {"arun", "streaming"}
    /\ ag_pc' = "raised"
    /\ UNCHANGED <<ag_call, ag_response, ag_yielded, ag_result, ag_failure,
                   ag_warnings, eval_results, ag_calls, mcpVars, streamVars,
                   chunkerVars, searchVars, document_chunks>>

InitAgent ==
    /\ StreamInit
    /\ ChunkerIdle
    /\ SearchIdle
    /\ SvcIdle
    /\ document_chunks = << >>

NextAgent ==
    \/ AgentChat
    \/ AgentChatReturns
    \/ AgentChatStream
    \/ AgentStreamFragment
    \/ AgentStreamEnds
    \/ AgentStreamClosed
    \/ AgentUpstreamRaises

SpecAgent == InitAgent /\ [][NextAgent]_vars

\* The terminal event generate() emits for the way chat_stream ended: done when
\* the loop ends normally, error when the pull raises (chat.py:170, 190-223).
ConsumerEvent(end) == IF end = "exhausted" THEN "done" ELSE "error"

\* The step runs _track_metrics: a row is committed or a failure occurred in it.
MetricsStep ==
    /\ ag_pc \in {"arun", "streaming"}
    /\ eval_results' # eval_results \/ ag_failure' # "none"

\* C21: whether _track_metrics commits its row or fails inside, chat returns
\* the response text, and chat_stream ends normally with the fragments it had
\* yielded, so that the consumer emits done; no failure inside it is raised.
C21_MetricsFailureInvisible ==
    [][MetricsStep =>
        /\ ag_call.op = "chat" =>
              /\ ag_pc' = "returned"
              /\ ag_result' = ag_response'
              /\ ag_result' \in AgentResponses
        /\ ag_call.op = "chat_stream" =>
              /\ ag_pc' = "exhausted"
              /\ ConsumerEvent(ag_pc') = "done"
              /\ ag_yielded' = ag_yielded
              /\ Joined(ag_yielded') = ag_response']_vars

\* One call whose metrics were committed, then a chat_stream call that yielded
\* its fragments and ended normally though the commit of its metrics failed.
C21_Witness ==
    /\ ag_call.op = "chat_stream"
    /\ ag_pc = "exhausted"
    /\ Len(ag_yielded) = MaxFragments
    /\ ag_failure = "commit"
    /\ ag_warnings = 1
    /\ Len(eval_results) = 1

(***************************************************************************)
(* MCP connections: MCPService.connect_server, disconnect_server,          *)
(* _close_connection and get_mcp_tools_for_agent                           *)
(* (backend/services/mcp_service.py).  connect_server and _close_connection *)
(* suspend at their await; other callers run in between.                   *)
(***************************************************************************)
\* ------------------------------------------------------------------ bounds
\* Calls each caller starts in one behaviour.
MaxMcpCalls == 2

\* mcp_servers rows: server 1 is enabled, server 2 is not.
ServerIds == {1, 2}
EnabledServers == {1}

\* An attribute of an MCPTools instance: missing, falsy or truthy.
FlagValues == {"absent", "false", "true"}

\* The MCPTools instance a caller creates in its n-th call.
ToolsId(c, n) == <<c, n>>

Tracked == {active_connections[k] : k \in DOMAIN active_connections}

\* self._active_connections[server_id] = mcp_tools   (mcp_service.py:202)
Store(tbl, server_id, tools) ==
    [k \in DOMAIN tbl \cup {server_id} |-> IF k = server_id THEN tools ELSE tbl[k]]

\* self._active_connections.pop(server_id)   (mcp_service.py:248)
Pop(tbl, server_id) == [k \in DOMAIN tbl \ {server_id} |-> tbl[k]]

\* The three branches of the loop body of get_mcp_tools_for_agent
\* (mcp_service.py:274-280): whether the instance is appended.
AppendedForAgent(tools) ==
    IF tools.private_initialized = "true" THEN TRUE
    ELSE IF tools.initialized = "true" THEN TRUE
    ELSE TRUE

\* No call of the caller is in progress.
McpAtRest == {"idle", "done"}

\* -------------------------------------------------------------- actions
\* connect_server up to `await mcp_tools.connect()` (mcp_service.py:185-199),
\* with MCP available.
ConnectServer(c) ==
    /\ mcp_pc[c] \in McpAtRest
    /\ mcp_calls[c] < MaxMcpCalls
    /\ mcp_calls' = [mcp_calls EXCEPT ![c] = @ + 1]
    /\ \E server_id \in ServerIds :
        /\ mcp_server_id' = [mcp_server_id EXCEPT ![c] = server_id]
        /\ IF server_id \in DOMAIN active_connections
           THEN /\ mcp_result' = [mcp_result EXCEPT ![c] = "True"]
                /\ mcp_pc' = [mcp_pc EXCEPT ![c] = "done"]
                /\ UNCHANGED <<mcp_tools, connections>>
           ELSE IF server_id \notin EnabledServers
           THEN /\ mcp_result' = [mcp_result EXCEPT ![c] = "False"]
                /\ mcp_pc' = [mcp_pc EXCEPT ![c] = "done"]
                /\ UNCHANGED <<mcp_tools, connections>>
           ELSE LET tools == ToolsId(c, mcp_calls[c] + 1) IN
                /\ mcp_tools' = [mcp_tools EXCEPT ![c] = tools]
                /\ connections' =
                      [k \in DOMAIN connections \cup {tools} |->
                          IF k = tools
                          THEN [server_id |-> server_id, state |-> "created",
                                private_initialized |-> "absent",
                                initialized |-> "absent"]
                          ELSE connections[k]]
                /\ mcp_result' = [mcp_result EXCEPT ![c] = NoResult]
                /\ mcp_pc' = [mcp_pc EXCEPT ![c] = "connecting"]
    /\ UNCHANGED <<active_connections, agent_tools, agentVars, streamVars, chunkerVars,
                   searchVars, document_chunks>>

\* connect() returns or raises (mcp_service.py:199-233).  What the library
\* leaves in the instance's _initialized / initialized attributes is its own.
ConnectReturns(c) ==
    /\ mcp_pc[c] = "connecting"
    /\ \E ok \in BOOLEAN, private \in FlagValues, public \in FlagValues :
        IF ok
        THEN /\ connections' = [connections EXCEPT ![mcp_tools[c]] =
                    [@ EXCEPT !.state = "open", !.private_initialized = private,
                              !.initialized = public]]
             /\ active_connections' =
                    Store(active_connections, mcp_server_id[c], mcp_tools[c])
             /\ mcp_result' = [mcp_result EXCEPT ![c] = "True"]
        ELSE /\ connections' = [connections EXCEPT ![mcp_tools[c]].state = "failed"]
             /\ active_connections' = active_connections
             /\ mcp_result' = [mcp_result EXCEPT ![c] = "False"]
    /\ mcp_pc' = [mcp_pc EXCEPT ![c] = "done"]
    /\ mcp_tools' = [mcp_tools EXCEPT ![c] = NoTools]
    /\ UNCHANGED <<mcp_server_id, mcp_calls, agent_tools, agentVars, streamVars,
                   chunkerVars, searchVars, document_chunks>>

\* disconnect_server and _close_connection up to `await mcp_tools.close()`
\* (mcp_service.py:235-249).
DisconnectServer(c) ==
    /\ mcp_pc[c] \in McpAtRest
    /\ mcp_calls[c] < MaxMcpCalls
    /\ mcp_calls' = [mcp_calls EXCEPT ![c] = @ + 1]
    /\ \E server_id \in ServerIds :
        /\ mcp_server_id' = [mcp_server_id EXCEPT ![c] = server_id]
        /\ IF server_id \notin DOMAIN active_connections
           THEN /\ mcp_result' = [mcp_result EXCEPT ![c] = "True"]
                /\ mcp_pc' = [mcp_pc EXCEPT ![c] = "done"]
                /\ UNCHANGED <<mcp_tools, connections, active_connections>>
           ELSE /\ mcp_tools' = [mcp_tools EXCEPT ![c] = active_connections[server_id]]
                /\ active_connections' = Pop(active_connections, server_id)
                /\ connections' =
                      [connections EXCEPT ![active_connections[server_id]].state = "closing"]
                /\ mcp_result' = [mcp_result EXCEPT ![c] = NoResult]
                /\ mcp_pc' = [mcp_pc EXCEPT ![c] = "closing"]
    /\ UNCHANGED <<agent_tools, agentVars, streamVars, chunkerVars, searchVars,
                   document_chunks>>

\* close() returns or raises (mcp_service.py:249-260).
CloseReturns(c) ==
    /\ mcp_pc[c] = "closing"
    /\ \E ok \in BOOLEAN :
        /\ connections' = [connections EXCEPT ![mcp_tools[c]].state =
                              IF ok THEN "closed" ELSE "close_failed"]
        /\ mcp_result' = [mcp_result EXCEPT ![c] = IF ok THEN "True" ELSE "False"]
    /\ mcp_pc' = [mcp_pc EXCEPT ![c] = "done"]
    /\ mcp_tools' = [mcp_tools EXCEPT ![c] = NoTools]
    /\ UNCHANGED <<active_connections, mcp_server_id, mcp_calls, agent_tools, agentVars,
                   streamVars, chunkerVars, searchVars, document_chunks>>

\* get_mcp_tools_for_agent, called by AgentService.get_all_tools
\* (mcp_service.py:266-281, agent_service.py:59-67).
GetMcpToolsForAgent ==
    /\ agent_tools' = {tools \in Tracked : AppendedForAgent(connections[tools])}
    /\ UNCHANGED <<active_connections, mcp_pc, mcp_server_id, mcp_tools, mcp_result,
                   connections, mcp_calls, agentVars, streamVars, chunkerVars,
                   searchVars, document_chunks>>

InitMcp ==
    /\ StreamInit
    /\ ChunkerIdle
    /\ SearchIdle
    /\ SvcIdle
    /\ document_chunks = << >>

NextMcp ==
    \/ \E c \in Callers : ConnectServer(c)
    \/ \E c \in Callers : ConnectReturns(c)
    \/ \E c \in Callers : DisconnectServer(c)
    \/ \E c \in Callers : CloseReturns(c)
    \/ GetMcpToolsForAgent

SpecMcp == InitMcp /\ [][NextMcp]_vars

\* The instance is properly initialized: one of its flags is there and true.
ProperlyInitialized(tools) ==
    tools.private_initialized = "true" \/ tools.initialized = "true"

\* C26: get_mcp_tools_for_agent hands over only properly initialized instances.
C26_OnlyInitializedTools ==
    \A tools \in agent_tools : ProperlyInitialized(connections[tools])

\* The connections opened for a server and not handed to close().
OpenFor(server_id) ==
    {k \in DOMAIN connections :
        connections[k].server_id = server_id /\ connections[k].state = "open"}

\* C29: at most one connection is open per server id, and every open connection
\* is tracked in the active-connection table.
C29_OneTrackedConnectionPerServer ==
    \A server_id \in ServerIds :
        /\ Cardinality(OpenFor(server_id)) <= 1
        /\ OpenFor(server_id) \subseteq Tracked

(***************************************************************************)
(* Streaming under fair scheduling: the event loop resumes a generator     *)
(* that is ready to run (a request accepted, a generator resumed by the    *)
(* transport, an awaited answer that arrived).  Nothing obliges the        *)
(* upstream producer to deliver, a client to cancel or the transport to    *)
(* close.                                                                  *)
(***************************************************************************)
\* A step of stream s's generator that only the scheduler decides.
GeneratorStep(s) ==
    \/ GenerateStart(s)
    \/ ResumeStart(s)
    \/ \E d \in BOOLEAN : DisconnectCheck(s, d)
    \/ ResumeChunk(s)
    \/ ResumeError(s)
    \/ ResumeDone(s)

FairSpec == Spec /\ \A s \in StreamIds : WF_vars(GeneratorStep(s))

\* The done event with cancelled = true is out and the table entry is gone.
CancelObserved(s) == EndsCancelled(s) /\ s \notin DOMAIN active_streams

\* C25: once cancel(s) has succeeded and the upstream producer yields another
\* fragment, the stream has emitted done with cancelled = true and its entry
\* has left the table (the fragment is taken, the flag read, the entry popped
\* and the done event yielded without a suspension in between, so "eventually"
\* is by the time the fragment is taken); the first fragment taken after the
\* cancel is where the loop stops.
C25_CancelNeverLost ==
    /\ [](\A s \in StreamIds : FragmentAfterCancel(s) => CancelObserved(s))
    /\ [][\A s \in StreamIds :
            (CancelSucceeded(s) /\ TakesFragment(s)) => StoppedWithoutFragment(s)]_vars

\* A cancel served between two fragments (one chunk emitted, none in hand) and
\* observed at the next one.
C25_Witness ==
    \E s \in StreamIds :
        /\ CancelSucceeded(s)
        /\ NumChunks(cancel_snapshot[s].events) = 1
        /\ cancel_snapshot[s].inhand = ""
        /\ pulled[s] = 2
        /\ CancelObserved(s)

====
